---- MODULE Spec2Model ----
\* Model of doc_chat.py: a Streamlit session that uploads documents to a hosted
\* provider, binds them into a vector store and chats against that store.
\* One action per user interaction (one script rerun); the provider's outcome of
\* every call is an input of the action.
EXTENDS Integers, Sequences, FiniteSets, TLC

\* ---------------------------------------------------------------- bounds
MaxStores == 2    \* vector stores the provider creates in one behaviour
MaxFiles  == 3    \* files the provider stores in one behaviour
MaxMsgs   == 4    \* length of the chat history

\* ---------------------------------------------------------------- values
None == 0                       \* Python None; provider ids are 1, 2, ...
Docs == {"report.pdf", "notes.txt"}
Questions == {"q1", "q2"}
Answers == {"a1"}
ApiKeyMessage == "Please enter your OpenAI API key in the sidebar."
UploadFirstMessage == "Please upload and process documents first."
SystemMessage == [role |-> "system", content |-> "only answer from the documents"]
Model == "gpt-4o-mini"

VARIABLES
    client,           \* TRUE iff an API key is entered (client is not None)
    uploaded_files,   \* the file uploader's selection, in order
    messages,         \* st.session_state.messages
    vector_store_id,  \* st.session_state.vector_store_id
    file_ids,         \* st.session_state.file_ids
    vector_stores,    \* provider: ids of the vector stores created
    files,            \* provider: ids of the files stored
    store_files,      \* provider: <<store, file>> attachments
    tmp_files,        \* transient files on local disk
    op,               \* the handler the last rerun executed
    prompt,           \* the chat input's value in the last rerun ("" when none)
    before,           \* the session state the last rerun started from
    calls,            \* provider calls made by the last rerun, in order
    display           \* what the last rerun wrote into the assistant placeholder

vars == <<client, uploaded_files, messages, vector_store_id, file_ids,
          vector_stores, files, store_files, tmp_files, op, prompt, before,
          calls, display>>

\* ---------------------------------------------------------------- helpers
Range(s) == {s[i] : i \in 1..Len(s)}

SetMax(S) == IF S = {} THEN 0 ELSE CHOOSE x \in S : \A y \in S : y <= x

\* The provider hands out identifiers it never handed out before.
NewId(S) == SetMax(S) + 1

\* The selections of the file uploader: distinct documents, in any order.
Batches == {s \in UNION {[1..n -> Docs] : n \in 0..Cardinality(Docs)} :
              \A i, j \in 1..Len(s) : s[i] = s[j] => i = j}

Call(api, doc, vs, file, input, ok) ==
    [api |-> api, doc |-> doc, vs |-> vs, file |-> file, input |-> input, ok |-> ok]

NoDisplay == [kind |-> "none", text |-> ""]

\* The part of the state a handler reads and writes, as one record.
World == [messages |-> messages, vector_store_id |-> vector_store_id,
          file_ids |-> file_ids, vector_stores |-> vector_stores, files |-> files,
          store_files |-> store_files, tmp_files |-> tmp_files,
          calls |-> <<>>, display |-> NoDisplay]

\* st.session_state as the rerun finds it.
Session == [messages |-> messages, vector_store_id |-> vector_store_id,
            file_ids |-> file_ids]

\* ---------------------------------------------------------------- provider wrappers
\* Mutant: the transient file is removed on the success path only.
upload_file_to_openai_leaks_on_failure(uploaded_file, ok, w) ==
    LET w1 == [w EXCEPT !.tmp_files = @ \cup {uploaded_file}]
        id == NewId(w.files)
    IN IF ok
       THEN [w |-> [w1 EXCEPT !.files = @ \cup {id},
                              !.calls = Append(@, Call("files.create", uploaded_file, None, id, <<>>, TRUE)),
                              !.tmp_files = @ \ {uploaded_file}],
             ret |-> id]
       ELSE [w |-> [w1 EXCEPT !.calls = Append(@, Call("files.create", uploaded_file, None, None, <<>>, FALSE))],
             ret |-> None]

\* upload_file_to_openai: write the transient file, upload it, remove it on both paths.
upload_file_to_openai(uploaded_file, ok, w) ==
    LET w1 == [w EXCEPT !.tmp_files = @ \cup {uploaded_file}]
        id == NewId(w.files)
    IN IF ok
       THEN [w |-> [w1 EXCEPT !.files = @ \cup {id},
                              !.calls = Append(@, Call("files.create", uploaded_file, None, id, <<>>, TRUE)),
                              !.tmp_files = @ \ {uploaded_file}],
             ret |-> id]
       ELSE [w |-> [w1 EXCEPT !.calls = Append(@, Call("files.create", uploaded_file, None, None, <<>>, FALSE)),
                              !.tmp_files = @ \ {uploaded_file}],
             ret |-> None]

\* create_vector_store: the new store's id, or None when the provider fails.
create_vector_store(ok, w) ==
    LET id == NewId(w.vector_stores)
    IN IF ok
       THEN [w |-> [w EXCEPT !.vector_stores = @ \cup {id},
                             !.calls = Append(@, Call("vector_stores.create", "", id, None, <<>>, TRUE))],
             ret |-> id]
       ELSE [w |-> [w EXCEPT !.calls = Append(@, Call("vector_stores.create", "", None, None, <<>>, FALSE))],
             ret |-> None]

\* add_file_to_vector_store: the attachment, or None (FALSE) when the provider fails.
add_file_to_vector_store(vs, file_id, ok, w) ==
    IF ok
    THEN [w |-> [w EXCEPT !.store_files = @ \cup {<<vs, file_id>>},
                          !.calls = Append(@, Call("vector_stores.files.create", "", vs, file_id, <<>>, TRUE))],
          ret |-> TRUE]
    ELSE [w |-> [w EXCEPT !.calls = Append(@, Call("vector_stores.files.create", "", vs, file_id, <<>>, FALSE))],
          ret |-> FALSE]

\* ---------------------------------------------------------------- Process Documents
\* Mutant: the handle list is not restarted.
store_vector_store_keeps_handles(vs, w) ==
    [w EXCEPT !.vector_store_id = vs]

\* A new store was created: it becomes the active one and the handle list restarts.
store_vector_store(vs, w) ==
    [w EXCEPT !.vector_store_id = vs, !.file_ids = <<>>]

\* Mutant: the attach is made whatever the upload returned.
process_file_attach_always(uploaded_file, vs, uploadOk, attachOk, w) ==
    LET u == upload_file_to_openai(uploaded_file, uploadOk, w)
    IN add_file_to_vector_store(vs, u.ret, attachOk,
           IF u.ret # None THEN [u.w EXCEPT !.file_ids = Append(@, u.ret)] ELSE u.w).w

\* One iteration of the loop over uploaded_files.
process_file(uploaded_file, vs, uploadOk, attachOk, w) ==
    LET u == upload_file_to_openai(uploaded_file, uploadOk, w)
    IN IF u.ret # None
       THEN add_file_to_vector_store(vs, u.ret, attachOk,
                [u.w EXCEPT !.file_ids = Append(@, u.ret)]).w
       ELSE u.w

\* Mutant: the loop ends at the first document whose upload fails.
RECURSIVE process_files_stop_on_failure(_, _, _, _, _, _)
process_files_stop_on_failure(i, batch, vs, uploadOk, attachOk, w) ==
    IF i > Len(batch)
    THEN w
    ELSE IF ~uploadOk[i]
    THEN process_file(batch[i], vs, uploadOk[i], attachOk[i], w)
    ELSE process_files_stop_on_failure(i + 1, batch, vs, uploadOk, attachOk,
             process_file(batch[i], vs, uploadOk[i], attachOk[i], w))

\* for uploaded_file in uploaded_files, from position i on.
RECURSIVE process_files(_, _, _, _, _, _)
process_files(i, batch, vs, uploadOk, attachOk, w) ==
    IF i > Len(batch)
    THEN w
    ELSE process_files(i + 1, batch, vs, uploadOk, attachOk,
                       process_file(batch[i], vs, uploadOk[i], attachOk[i], w))

\* Mutant: the chat history survives the processing.
clear_chat_history_skipped(w) ==
    w

\* Clear chat history when new documents are uploaded.
clear_chat_history(w) ==
    [w EXCEPT !.messages = <<>>]

\* Mutant: the loop runs even though no store was created.
process_documents_no_abort(batch, createOk, uploadOk, attachOk, w) ==
    LET c == create_vector_store(createOk, w)
    IN IF c.ret # None
       THEN clear_chat_history(
                process_files(1, batch, c.ret, uploadOk, attachOk,
                              store_vector_store(c.ret, c.w)))
       ELSE process_files(1, batch, c.ret, uploadOk, attachOk, c.w)

\* The body of the "Process Documents" button.
process_documents(batch, createOk, uploadOk, attachOk, w) ==
    LET c == create_vector_store(createOk, w)
    IN IF c.ret # None
       THEN clear_chat_history(
                process_files(1, batch, c.ret, uploadOk, attachOk,
                              store_vector_store(c.ret, c.w)))
       ELSE c.w

\* ---------------------------------------------------------------- Clear All Documents
\* Mutant: the chat history is not cleared.
clear_all_documents_keeps_messages(w) ==
    [w EXCEPT !.vector_store_id = None, !.file_ids = <<>>]

\* Mutant: the handle list survives the clearing.
clear_all_documents_keeps_handles(w) ==
    [w EXCEPT !.vector_store_id = None, !.messages = <<>>]

\* Mutant: the active store and its files are deleted at the provider.
clear_all_documents_deletes_remote(w) ==
    [w EXCEPT !.vector_store_id = None, !.file_ids = <<>>, !.messages = <<>>,
              !.vector_stores = @ \ {w.vector_store_id},
              !.files = @ \ Range(w.file_ids),
              !.store_files = {a \in @ : a[1] # w.vector_store_id}]

clear_all_documents(w) ==
    [w EXCEPT !.vector_store_id = None, !.file_ids = <<>>, !.messages = <<>>]

\* ---------------------------------------------------------------- chat input
UserMessage(question) == [role |-> "user", content |-> question]
AssistantMessage(text) == [role |-> "assistant", content |-> text]

\* Mutant: the question is put in front of the chat history.
append_user_message_in_front(question, w) ==
    [w EXCEPT !.messages = <<UserMessage(question)>> \o @]

\* Add user message to chat history.
append_user_message(question, w) ==
    [w EXCEPT !.messages = Append(@, UserMessage(question))]

\* Mutant: what is shown is stored in the chat history as well.
placeholder_write_stored(text, w) ==
    [w EXCEPT !.display = [kind |-> "write", text |-> text],
              !.messages = Append(@, [role |-> "assistant", content |-> text])]

\* message_placeholder.write(text): shown, not stored.
placeholder_write(text, w) ==
    [w EXCEPT !.display = [kind |-> "write", text |-> text]]

\* Mutant: the chat history is sent along as conversational context.
chat_request_with_history(question, w) ==
    [model |-> Model, input |-> <<SystemMessage>> \o w.messages,
     tools |-> <<[type |-> "file_search",
                  vector_store_ids |-> <<w.vector_store_id>>]>>]

\* The request of client.responses.create: the system message, the question and
\* the file_search tool over the active store.
chat_request(question, w) ==
    [model |-> Model, input |-> <<SystemMessage, UserMessage(question)>>,
     tools |-> <<[type |-> "file_search",
                  vector_store_ids |-> <<w.vector_store_id>>]>>]

\* Mutant: the answer is shown but not added to the chat history.
chat_success_not_stored(text, w) ==
    placeholder_write(text, w)

\* The provider answered: show the text and add it to the chat history.
chat_success(text, w) ==
    [placeholder_write(text, w) EXCEPT !.messages = Append(@, AssistantMessage(text))]

\* Mutant: the error is added to the chat history.
chat_failure_stored(w) ==
    [w EXCEPT !.display = [kind |-> "error", text |-> "Error"],
              !.messages = Append(@, AssistantMessage("Error"))]

\* except Exception: the error is shown in the placeholder only.
chat_failure(w) ==
    [w EXCEPT !.display = [kind |-> "error", text |-> "Error"]]

\* Mutant: the store is not checked before the provider is called.
chat_respond_unchecked_store(question, ok, text, w) ==
    IF ~client
    THEN placeholder_write(ApiKeyMessage, w)
    ELSE LET w1 == [w EXCEPT !.calls = Append(@,
                        Call("responses.create", "", w.vector_store_id, None,
                             chat_request(question, w), ok))]
         IN IF ok THEN chat_success(text, w1) ELSE chat_failure(w1)

\* Mutant: the client is not checked before the provider is called.
chat_respond_unchecked_client(question, ok, text, w) ==
    IF w.vector_store_id = None
    THEN placeholder_write(UploadFirstMessage, w)
    ELSE LET w1 == [w EXCEPT !.calls = Append(@,
                        Call("responses.create", "", w.vector_store_id, None,
                             chat_request(question, w), ok))]
         IN IF ok THEN chat_success(text, w1) ELSE chat_failure(w1)

\* The assistant's part of the chat handler.
chat_respond(question, ok, text, w) ==
    IF ~client
    THEN placeholder_write(ApiKeyMessage, w)
    ELSE IF w.vector_store_id = None
    THEN placeholder_write(UploadFirstMessage, w)
    ELSE LET w1 == [w EXCEPT !.calls = Append(@,
                        Call("responses.create", "", w.vector_store_id, None,
                             chat_request(question, w), ok))]
         IN IF ok THEN chat_success(text, w1) ELSE chat_failure(w1)

\* Mutant: the question is added to the chat history after the reply.
chat_input_question_last(question, ok, text, w) ==
    append_user_message(question, chat_respond(question, ok, text, w))

\* The body of "if prompt := st.chat_input(...)".
chat_input(question, ok, text, w) ==
    chat_respond(question, ok, text, append_user_message(question, w))

\* ---------------------------------------------------------------- state machine
Init ==
    /\ client = FALSE
    /\ uploaded_files = <<>>
    /\ messages = <<>>
    /\ vector_store_id = None
    /\ file_ids = <<>>
    /\ vector_stores = {}
    /\ files = {}
    /\ store_files = {}
    /\ tmp_files = {}
    /\ op = "init"
    /\ prompt = ""
    /\ before = Session
    /\ calls = <<>>
    /\ display = NoDisplay

\* A rerun leaves the state the handler's world holds.
Commit(name, input, w) ==
    /\ op' = name
    /\ prompt' = input
    /\ before' = Session
    /\ messages' = w.messages
    /\ vector_store_id' = w.vector_store_id
    /\ file_ids' = w.file_ids
    /\ vector_stores' = w.vector_stores
    /\ files' = w.files
    /\ store_files' = w.store_files
    /\ tmp_files' = w.tmp_files
    /\ calls' = w.calls
    /\ display' = w.display

\* The user types (or empties) the API key field.
SetApiKey ==
    \E key \in {"", "sk"} :
        /\ client' = (key # "")
        /\ Commit("api_key", "", World)
        /\ UNCHANGED uploaded_files

\* The user changes the selection of the file uploader.
SelectFiles ==
    \E batch \in Batches :
        /\ uploaded_files' = batch
        /\ Commit("select", "", World)
        /\ UNCHANGED client

\* The user presses "Process Documents".
ProcessDocuments ==
    /\ uploaded_files # <<>>
    /\ client
    /\ Cardinality(vector_stores) < MaxStores
    /\ Cardinality(files) + Len(uploaded_files) <= MaxFiles
    /\ \E createOk \in BOOLEAN :
       \E uploadOk, attachOk \in [1..Len(uploaded_files) -> BOOLEAN] :
           Commit("process", "",
                  process_documents(uploaded_files, createOk, uploadOk, attachOk, World))
    /\ UNCHANGED <<client, uploaded_files>>

\* The user presses "Clear All Documents".
ClearAllDocuments ==
    /\ file_ids # <<>>
    /\ Commit("clear", "", clear_all_documents(World))
    /\ UNCHANGED <<client, uploaded_files>>

\* The user submits a question in the chat input.
ChatInput ==
    /\ Len(messages) + 2 <= MaxMsgs
    /\ \E question \in Questions, ok \in BOOLEAN, text \in Answers :
           Commit("ask", question, chat_input(question, ok, text, World))
    /\ UNCHANGED <<client, uploaded_files>>

Next ==
    \/ SetApiKey
    \/ SelectFiles
    \/ ProcessDocuments
    \/ ClearAllDocuments
    \/ ChatInput

Spec == Init /\ [][Next]_vars

\* ---------------------------------------------------------------- observations
\* The last rerun processed a batch and the store was created.
Processed == op = "process" /\ calls[1].ok

\* The last rerun processed a batch and the creation of the store failed.
CreateFailed == op = "process" /\ ~calls[1].ok

\* The attach calls of the last rerun that succeeded.
AttachedCalls ==
    {i \in 1..Len(calls) : calls[i].api = "vector_stores.files.create" /\ calls[i].ok}

\* The file ids the uploads of the last rerun returned.
UploadedNow ==
    {calls[i].file : i \in {j \in 1..Len(calls) :
                               calls[j].api = "files.create" /\ calls[j].ok}}

\* The last rerun was an ask answered locally.
ShortCircuited == op = "ask" /\ (~client \/ before.vector_store_id = None)

\* The last rerun was an ask that had a client and an active store.
ReachedProvider == op = "ask" /\ client /\ before.vector_store_id # None

\* ---------------------------------------------------------------- claims
\* C1 (as claimed): after a Process Documents action whose store was created, the
\* handle list is as long as the number of documents of the batch for which both
\* the upload and the attach succeeded.
C1_HandleCountIsAttachedCount ==
    Processed => Len(file_ids) = Cardinality(AttachedCalls)

\* C2 (as claimed): the active vector store is non-null if and only if the handle
\* list holds at least one handle.
C2_StoreIffHandles ==
    (vector_store_id # None) <=> (file_ids # <<>>)

\* C3: a Clear All Documents action leaves no active store, an empty handle list
\* and an empty chat history.
C3_ClearResetsSession ==
    op = "clear" =>
        /\ vector_store_id = None
        /\ file_ids = <<>>
        /\ messages = <<>>

C3_Witness ==
    /\ op = "clear"
    /\ before.vector_store_id # None
    /\ before.file_ids # <<>>
    /\ before.messages # <<>>

\* C4: processing while a store is active and the new store is created makes the
\* new store the active one, and the handle list holds only ids returned by the
\* uploads of this batch, none of the previous batch.
C4_ReprocessReplaces ==
    (Processed /\ before.vector_store_id # None) =>
        /\ vector_store_id = calls[1].vs
        /\ vector_store_id # before.vector_store_id
        /\ Range(file_ids) \subseteq UploadedNow
        /\ Range(file_ids) \cap Range(before.file_ids) = {}

C4_Witness ==
    /\ Processed
    /\ before.vector_store_id # None
    /\ before.file_ids # <<>>
    /\ file_ids # <<>>

\* C5 (as claimed): after every Process Documents action, whatever the outcome of
\* the creation of the store, the chat history is empty.
C5_ProcessAlwaysClearsTranscript ==
    op = "process" => messages = <<>>

\* C5 (amended): after every Process Documents action whose store was created,
\* whatever the outcomes of the uploads and attaches, the chat history is empty.
C5_ProcessedClearsTranscript ==
    Processed => messages = <<>>

C5_Witness ==
    /\ Processed
    /\ before.messages # <<>>
    /\ \E i \in 1..Len(calls) : ~calls[i].ok

\* C6: an ask made while no store is active makes no provider call and shows one
\* of the two fixed instructional messages.
C6_NoStoreNoProviderCall ==
    (op = "ask" /\ before.vector_store_id = None) =>
        /\ calls = <<>>
        /\ display.kind = "write"
        /\ display.text \in {ApiKeyMessage, UploadFirstMessage}

C6_Witness ==
    /\ op = "ask"
    /\ before.vector_store_id = None
    /\ client
    /\ vector_stores # {}
    /\ display.text = UploadFirstMessage

\* C7: when the provider call of an ask fails, the chat history is the one before
\* the ask with the question appended as a user message and nothing else, and the
\* active store and the handle list are unchanged.
C7_FailedAskKeepsQuestionOnly ==
    ReachedProvider =>
        /\ Len(calls) = 1
        /\ calls[1].api = "responses.create"
        /\ ~calls[1].ok =>
              /\ messages = Append(before.messages, UserMessage(prompt))
              /\ display.kind = "error"
              /\ vector_store_id = before.vector_store_id
              /\ file_ids = before.file_ids

C7_Witness ==
    /\ ReachedProvider
    /\ ~calls[1].ok
    /\ before.messages # <<>>

\* C8: an ask answered locally (no client, or no active store) appends the user
\* message with the question and nothing else; the instructional reply is shown
\* and not stored; the active store and the handle list are unchanged.
C8_ShortCircuitStoresQuestionOnly ==
    ShortCircuited =>
        /\ messages = Append(before.messages, UserMessage(prompt))
        /\ display.text \in {ApiKeyMessage, UploadFirstMessage}
        /\ vector_store_id = before.vector_store_id
        /\ file_ids = before.file_ids

C8_Witness ==
    /\ ShortCircuited
    /\ ~client
    /\ before.vector_store_id # None
    /\ before.messages # <<>>

\* C9: when an ask has a client and an active store and the provider call
\* succeeds, the chat history is the one before the ask followed by the user
\* message with the question and then the assistant message with the text shown.
C9_AnsweredAskAppendsPair ==
    ReachedProvider =>
        /\ Len(calls) = 1
        /\ calls[1].ok =>
              /\ display.kind = "write"
              /\ display.text \in Answers
              /\ messages = before.messages \o
                     <<UserMessage(prompt), AssistantMessage(display.text)>>

C9_Witness ==
    /\ ReachedProvider
    /\ calls[1].ok
    /\ before.messages # <<>>
    /\ Len(messages) = Len(before.messages) + 2

\* C10: when the creation of the store fails, the action makes no upload and no
\* attach call and leaves the active store and the handle list as they were; no
\* attachment names a store that was not created.
C10_CreateFailureAborts ==
    /\ CreateFailed =>
          /\ Len(calls) = 1
          /\ calls[1].api = "vector_stores.create"
          /\ vector_store_id = before.vector_store_id
          /\ file_ids = before.file_ids
    /\ \A a \in store_files : a[1] \in vector_stores

C10_Witness ==
    /\ CreateFailed
    /\ before.vector_store_id # None
    /\ before.file_ids # <<>>
    /\ Len(uploaded_files) = 2

\* ---------------------------------------------------------------- observations of a batch
IsUpload(c) == c.api = "files.create"
IsAttach(c) == c.api = "vector_stores.files.create"
IsOk(c) == c.ok

\* The upload calls and the attach calls of the last rerun, in the order made.
Uploads == SelectSeq(calls, IsUpload)
Attaches == SelectSeq(calls, IsAttach)

\* The uploads of the last rerun that returned a file id.
GoodUploads == SelectSeq(Uploads, IsOk)

\* C11: within a batch whose store was created, every document has its upload
\* attempted exactly once, in the order of the selection, whatever the outcomes of
\* the earlier documents; a failed upload returns no handle, and the handle list is
\* the ids of the successful uploads in that order.
C11_UploadsIndependentInOrder ==
    Processed =>
        /\ Len(Uploads) = Len(uploaded_files)
        /\ \A i \in 1..Len(Uploads) : Uploads[i].doc = uploaded_files[i]
        /\ \A i \in 1..Len(Uploads) : ~Uploads[i].ok => Uploads[i].file = None
        /\ Len(file_ids) = Len(GoodUploads)
        /\ \A i \in 1..Len(file_ids) : file_ids[i] = GoodUploads[i].file

C11_Witness ==
    /\ Processed
    /\ Len(uploaded_files) = 2
    /\ ~Uploads[1].ok
    /\ Uploads[2].ok
    /\ Len(file_ids) = 1

\* C12: within a batch, an attach is attempted exactly once for every document
\* whose upload succeeded, in order, and for no other; every attach names the store
\* this action created; a failed attach does not stop the later ones.
C12_AttachPerUploadedFile ==
    Processed =>
        /\ Len(Attaches) = Len(GoodUploads)
        /\ \A i \in 1..Len(Attaches) :
              /\ Attaches[i].file = GoodUploads[i].file
              /\ Attaches[i].file # None
              /\ Attaches[i].vs = calls[1].vs
              /\ Attaches[i].vs \notin {None, before.vector_store_id}

C12_Witness ==
    /\ Processed
    /\ before.vector_store_id # None
    /\ Len(Attaches) = 2
    /\ ~Attaches[1].ok
    /\ Attaches[2].ok

\* C13: no transient file outlives the ingest of its document: after every
\* rerun, whatever the outcomes of the uploads, no transient file exists.
C13_NoTransientFileLeft ==
    tmp_files = {}

C13_Witness ==
    /\ Processed
    /\ Len(Uploads) = 2
    /\ Uploads[1].ok
    /\ ~Uploads[2].ok
    /\ tmp_files = {}

\* C14: while no API key is entered, no rerun makes a provider call, the Process
\* Documents handler does not run, and an ask shows the "enter API key" message,
\* also when a store is active.
C14_NoClientNoProviderCall ==
    ~client =>
        /\ calls = <<>>
        /\ op # "process"
        /\ op = "ask" => display = [kind |-> "write", text |-> ApiKeyMessage]

C14_Witness ==
    /\ ~client
    /\ op = "ask"
    /\ before.vector_store_id # None
    /\ display.text = ApiKeyMessage

\* s is t with zero or more elements added at the end.
IsPrefix(s, t) ==
    /\ Len(s) <= Len(t)
    /\ \A i \in 1..Len(s) : s[i] = t[i]

\* C15: in every step the chat history either keeps every message in place, with
\* new messages added at the end only, or becomes empty by a Clear All Documents
\* or a Process Documents rerun; only an ask adds messages.
C15_TranscriptAppendOnly ==
    [][/\ \/ IsPrefix(messages, messages')
          \/ (messages' = <<>> /\ op' \in {"clear", "process"})
       /\ Len(messages') > Len(messages) => op' = "ask"]_vars

C15_Witness ==
    /\ op = "ask"
    /\ before.messages # <<>>
    /\ Len(messages) = Len(before.messages) + 2
    /\ IsPrefix(before.messages, messages)

\* C16: no step removes a vector store, a file or an attachment at the provider;
\* a Clear All Documents rerun makes no provider call, a Process Documents rerun
\* makes only create calls, and the one store referenced locally, if any, exists.
C16_RemoteNeverShrinks ==
    [][/\ vector_stores \subseteq vector_stores'
       /\ files \subseteq files'
       /\ store_files \subseteq store_files'
       /\ op' = "clear" => calls' = <<>>
       /\ op' = "process" =>
             \A i \in 1..Len(calls') :
                 calls'[i].api \in {"vector_stores.create", "files.create",
                                    "vector_stores.files.create"}
       /\ vector_store_id' \in vector_stores' \cup {None}]_vars

C16_Witness ==
    /\ op = "clear"
    /\ vector_store_id = None
    /\ Cardinality(vector_stores) = 2
    /\ files # {}
    /\ store_files # {}

\* C17: the request of an ask is the fixed model, the system message followed by
\* the current question, and one file_search tool over exactly the active store;
\* it is determined by the question and the active store alone, whatever the chat
\* history holds.
C17_RequestIgnoresTranscript ==
    ReachedProvider =>
        /\ Len(calls) = 1
        /\ calls[1].input.model = Model
        /\ calls[1].input.input = <<SystemMessage, UserMessage(prompt)>>
        /\ calls[1].input.tools =
               <<[type |-> "file_search",
                  vector_store_ids |-> <<before.vector_store_id>>]>>

C17_Witness ==
    /\ ReachedProvider
    /\ Len(before.messages) >= 2
    /\ Len(calls[1].input.input) = 2

\* C18: every assistant message of the chat history comes right after a user
\* message: the history does not start with an assistant message and holds no two
\* assistant messages in a row.
C18_AssistantFollowsUser ==
    \A i \in 1..Len(messages) :
        messages[i].role = "assistant" =>
            /\ i > 1
            /\ messages[i - 1].role = "user"

\* An answered question after an unanswered one: two user messages in a row occur.
C18_Witness ==
    /\ Len(messages) = 3
    /\ messages[1].role = "user"
    /\ messages[2].role = "user"
    /\ messages[3].role = "assistant"

\* C19: a non-empty handle list implies an active store, and a rerun that nulls
\* the active store leaves the handle list empty.
C19_HandlesImplyStore ==
    /\ file_ids # <<>> => vector_store_id # None
    /\ (before.vector_store_id # None /\ vector_store_id = None) => file_ids = <<>>

C19_Witness ==
    /\ op = "clear"
    /\ Len(before.file_ids) = 2
    /\ before.vector_store_id # None
    /\ vector_store_id = None
    /\ file_ids = <<>>

\* C20 (as claimed): Clear All Documents is available in every state with an
\* active store.
C20_ClearAvailableWhenStoreActive ==
    vector_store_id # None => ENABLED ClearAllDocuments
====
